---- MODULE Spec2Model ----
(***************************************************************************)
(* SurgiTrack backend (backend/server.py): the detector thread's frame     *)
(* loop (decimated hand / ArUco detection, ToolTracker, appearance         *)
(* debounce, publication of latest_frame / latest_data under frame_lock    *)
(* and data_lock), the camera start/stop endpoints and the readers of the  *)
(* two slots (MJPEG generator, detection WebSocket, health endpoint).      *)
(*                                                                         *)
(* Time is the wall clock in whole seconds.  Confidence is the exact       *)
(* rational sum(history)/len(history), kept as numerator and denominator.  *)
(***************************************************************************)
EXTENDS Integers, Sequences, FiniteSets, TLC

\* ---------------------------------------------------------------- constants
DETECTION_HISTORY_SIZE == 10
\* MIN_CONFIDENCE_THRESHOLD = 0.4, as the fraction 4/10
MIN_CONFIDENCE_NUM == 4
MIN_CONFIDENCE_DEN == 10
MAX_LOST_FRAMES == 25
\* POSITION_SMOOTHING = 0.3, as the fraction 3/10
POSITION_SMOOTHING_NUM == 3
POSITION_SMOOTHING_DEN == 10
MIN_MARKER_PERIMETER == 15
HAND_EVERY_N == 3
ARUCO_EVERY_N == 2
REPRINT_AFTER == 10
MAX_NUM_HANDS == 2

\* The marker registry (ids 20..33) and the names it gives.
TOOL_MARKERS ==
    [m \in 20..33 |->
        CASE m = 20 -> "scalpel"           [] m = 21 -> "artery_forceps"
          [] m = 22 -> "iris_scissors"     [] m = 23 -> "operating_scissors"
          [] m = 24 -> "tweezers"          [] m = 25 -> "aspirator"
          [] m = 26 -> "bending_shear"     [] m = 27 -> "circular_spoon"
          [] m = 28 -> "core_needle"       [] m = 29 -> "fine_needle"
          [] m = 30 -> "rongeur_forceps_1" [] m = 31 -> "rongeur_forceps_2"
          [] m = 32 -> "stripping"         [] OTHER  -> "wire_grabbing_pliers"]

\* ------------------------------------------------------------------- bounds
\* Tracker cycles explored when the tracker is driven on its own.
MaxTrackerCycles == 28
\* Tracker cycles explored when the candidates come from two places.
MaxDupCycles == 3
\* Candidates one tracker cycle may receive when the tracker is driven on
\* its own (two overlapping hand regions can both yield the same marker).
MaxCandidates == 2
\* Marker ids shown to the tracker when it is driven on its own.
TrackerIds == {20}
\* Frames the detector loop acquires, and the last second of the wall clock.
MaxFrames == 10
MaxClock == 12
\* The same two limits when the readers run beside the detector loop.
ConcFrames == 4
ConcClock == 0
\* Frames and seconds of the runs in which the idle branch is followed.
IdleFrames == 4
IdleClock == 6
\* Frames acquired when every WebSocket client runs beside the detector loop.
ClientFrames == 6
\* Seconds that may pass while the loop blocks (cap.read, time.sleep).
TimeSteps == {0, 5, 6}
\* What the marker oracle may report in one region: at most one marker, the
\* registered id 20 or the unregistered id 7, with its perimeter.
\* A marker's corner polygon is given in frame coordinates (what the oracle
\* reports in the region, mapped back to the frame).
SquareAt(cx, cy) == <<<<cx - 20, cy - 20>>, <<cx + 20, cy - 20>>,
                      <<cx + 20, cy + 20>>, <<cx - 20, cy + 20>>>>
MarkerPlace == SquareAt(320, 240)
OtherPlace == SquareAt(420, 260)
RawMarkers == {[id |-> 20, perimeter |-> 40, corners |-> MarkerPlace],
               [id |-> 7, perimeter |-> 40, corners |-> MarkerPlace],
               [id |-> 20, perimeter |-> 8, corners |-> MarkerPlace]}
RegionResults == {<<>>} \cup {<<m>> : m \in RawMarkers}
\* What the hand oracle may report: landmark extents (pixels) of up to
\* MAX_NUM_HANDS hands; the two hands' padded regions overlap.
Hand1 == [x0 |-> 200, x1 |-> 300, y0 |-> 150, y1 |-> 250]
Hand2 == [x0 |-> 350, x1 |-> 600, y0 |-> 200, y1 |-> 470]
HandResults == {<<>>, <<Hand1, Hand2>>}
\* Average frame rates the loop may measure.
FpsValues == {30}
\* Readers of the published slots.
WsClients == {"w1", "w2"}

VARIABLES
    \* ---- detector thread
    pc,                  \* position of the detector thread in its loop
    frame_count,         \* frames acquired
    cached_hand_boxes,   \* hand regions of the last localization
    tracker,             \* ToolTracker: tracked_tools (id -> TrackedTool), frame_count
    last_printed,        \* id -> time it was announced
    last_seen_time,      \* id -> time it was last in the stable set
    pending_events,      \* appearance events not yet published
    avg_fps,             \* frame rate measured in the current cycle
    clock,               \* wall clock, seconds
    \* ---- shared state
    camera_active, latest_frame, latest_data, frame_lock, data_lock, ws_clients,
    \* ---- readers
    ev_loop,             \* the coroutine running on the event loop ("idle": none)
    ws,                  \* per WebSocket client: pc, data, last_tool_ids
    mjpeg,               \* the MJPEG generator: pc, frame
    health,              \* the health endpoint: pc, d
    \* ---- history, for the properties
    born,                \* tracker on its own: id -> cycle in which its Track was created
    last_hit,            \* tracker on its own: id -> last cycle whose candidates held the id
    seen_valid,          \* id -> time of the last cycle in which it was stable
    gone_since,          \* id -> time of the first cycle in which it was no longer stable
    tracker_cands,       \* the ids among the candidates of the last marker detection
    cap_opened,          \* what cap.isOpened() returned at startup
    hands_frame,         \* the frame of the last hand localization (0: none yet)
    jpeg_pub,            \* the last frame written to latest_frame (0: none yet)
    built,               \* the last whole value built for latest_data
    pub_frame,           \* the frame whose Snapshot latest_data holds (0: none yet)
    ws_forwarded         \* per client: the last frame whose events were handed to send_json

detectorVars == <<pc, frame_count, cached_hand_boxes, tracker,
                  last_printed, last_seen_time, pending_events, avg_fps, clock>>
sharedVars == <<camera_active, latest_frame, latest_data, frame_lock, data_lock, ws_clients>>
readerVars == <<ev_loop, ws, mjpeg, health>>
historyVars == <<born, last_hit, seen_valid, gone_since, tracker_cands, cap_opened, hands_frame, jpeg_pub, built, pub_frame, ws_forwarded>>
vars == <<detectorVars, sharedVars, readerVars, historyVars>>

\* --------------------------------------------------------------- TrackedTool
Sum(h) == LET S[i \in 0..Len(h)] == IF i = 0 THEN 0 ELSE S[i - 1] + h[i] IN S[Len(h)]

\* (variant: a deque without maxlen)
DequeAppendUnbounded(h, b) == Append(h, b)

\* deque(maxlen = DETECTION_HISTORY_SIZE).append
DequeAppend(h, b) ==
    IF Len(h) < DETECTION_HISTORY_SIZE THEN Append(h, b) ELSE Append(Tail(h), b)

Confidence(h) == [num |-> Sum(h), den |-> Len(h)]

\* Coordinates of smoothed_center are exact fractions in lowest terms (the
\* floats of the program, without their rounding).
RECURSIVE GCD(_, _)
GCD(a, b) == IF b = 0 THEN a ELSE GCD(b, a % b)

Frac(n, d) == LET g == GCD(n, d) IN [num |-> n \div g, den |-> d \div g]

\* np.array(center, dtype=float)
AsFloat(center) == [k \in DOMAIN center |-> Frac(center[k], 1)]

\* POSITION_SMOOTHING * smoothed_center + (1 - POSITION_SMOOTHING) * center
Smooth(smoothed_center, center) ==
    [k \in DOMAIN center |->
        Frac(POSITION_SMOOTHING_NUM * smoothed_center[k].num
               + (POSITION_SMOOTHING_DEN - POSITION_SMOOTHING_NUM)
                    * center[k] * smoothed_center[k].den,
             POSITION_SMOOTHING_DEN * smoothed_center[k].den)]

\* TrackedTool.__init__: last_seen_frame starts at 0, whatever the cycle is.
TrackedToolInit(tool_id, tool_name, center, corners) ==
    [id |-> tool_id, name |-> tool_name,
     center |-> AsFloat(center), corners |-> corners,
     last_seen_frame |-> 0, frames_lost |-> 0,
     detection_history |-> <<1>>,
     smoothed_center |-> AsFloat(center),
     confidence |-> [num |-> 1, den |-> 1]]

TrackedToolUpdate(t, center, corners, current_frame) ==
    LET h == DequeAppend(t.detection_history, 1) IN
    [t EXCEPT !.smoothed_center = Smooth(t.smoothed_center, center),
              !.center = AsFloat(center),
              !.corners = corners,
              !.last_seen_frame = current_frame,
              !.frames_lost = 0,
              !.detection_history = h,
              !.confidence = Confidence(h)]

TrackedToolPredict(t, current_frame) ==
    LET h == DequeAppend(t.detection_history, 0) IN
    [t EXCEPT !.frames_lost = current_frame - t.last_seen_frame,
              !.detection_history = h,
              !.confidence = Confidence(h)]

\* confidence >= 0.4  <=>  10 * num >= 4 * den
IsValid(t) ==
    /\ t.frames_lost <= MAX_LOST_FRAMES
    /\ MIN_CONFIDENCE_DEN * t.confidence.num >= MIN_CONFIDENCE_NUM * t.confidence.den

\* --------------------------------------------------------------- ToolTracker
ToolTrackerInit == [tracked_tools |-> <<>>, frame_count |-> 0]

SeenIds(detected_tools) == {detected_tools[i].id : i \in 1..Len(detected_tools)}

\* The first loop of ToolTracker.update: every candidate, in order, updates
\* the Track of its id or creates it.
RECURSIVE ApplyDetections(_, _, _)
ApplyDetections(tools, detected_tools, fc) ==
    IF detected_tools = <<>> THEN tools
    ELSE LET tool == Head(detected_tools)
             next == IF tool.id \in DOMAIN tools
                     THEN [tools EXCEPT ![tool.id] =
                              TrackedToolUpdate(@, tool.center, tool.corners, fc)]
                     ELSE tools @@ (tool.id :> TrackedToolInit(tool.id, tool.name,
                                                               tool.center, tool.corners))
         IN ApplyDetections(next, Tail(detected_tools), fc)

\* (variant: the Tracks that predicted are never deleted)
PredictUnseenKeepsAll(tools, seen_ids, fc) ==
    [i \in DOMAIN tools |->
        IF i \in seen_ids THEN tools[i] ELSE TrackedToolPredict(tools[i], fc)]

\* The second loop: every Track whose id was not seen predicts, and is
\* deleted when it is no longer valid.
PredictUnseen(tools, seen_ids, fc) ==
    LET after == [i \in DOMAIN tools |->
                     IF i \in seen_ids THEN tools[i] ELSE TrackedToolPredict(tools[i], fc)]
        keep == {i \in DOMAIN tools : i \in seen_ids \/ IsValid(after[i])}
    IN [i \in keep |-> after[i]]

ToolTrackerUpdate(tr, detected_tools) ==
    LET fc == tr.frame_count + 1 IN
    [tracked_tools |-> PredictUnseen(ApplyDetections(tr.tracked_tools, detected_tools, fc),
                                     SeenIds(detected_tools), fc),
     frame_count |-> fc]

GetStableTools(tr) == {i \in DOMAIN tr.tracked_tools : IsValid(tr.tracked_tools[i])}

\* ------------------------------------------------------------------ history
\* Bookkeeping of one tracker.update for the properties below: when each
\* Track now held was created, and when its id was last among the candidates.
BornAfter(tr, detected_tools) ==
    LET fc == tr.frame_count + 1
        now == ToolTrackerUpdate(tr, detected_tools).tracked_tools
    IN [i \in DOMAIN now |-> IF i \in DOMAIN tr.tracked_tools THEN born[i] ELSE fc]

LastHitAfter(tr, detected_tools) ==
    LET fc == tr.frame_count + 1
        now == ToolTrackerUpdate(tr, detected_tools).tracked_tools
    IN [i \in DOMAIN now |-> IF i \in SeenIds(detected_tools) THEN fc ELSE last_hit[i]]

\* ------------------------------------------------------ detection adapters
\* get_hand_bounding_boxes on a 640 x 480 frame: the landmark extents padded
\* by HAND_ROI_PADDING and clamped to the frame, as [x, y, w, h].
FRAME_W == 640
FRAME_H == 480
HAND_ROI_PADDING == 120

Max2(a, b) == IF a >= b THEN a ELSE b
Min2(a, b) == IF a <= b THEN a ELSE b

HandBox(lm) ==
    LET x_min == Max2(0, lm.x0 - HAND_ROI_PADDING)
        y_min == Max2(0, lm.y0 - HAND_ROI_PADDING)
        x_max == Min2(FRAME_W, lm.x1 + HAND_ROI_PADDING)
        y_max == Min2(FRAME_H, lm.y1 + HAND_ROI_PADDING)
    IN <<x_min, y_min, x_max - x_min, y_max - y_min>>

GetHandBoundingBoxes(hand_landmarks_list) ==
    [i \in 1..Len(hand_landmarks_list) |-> HandBox(hand_landmarks_list[i])]

\* (int(np.mean(corners[:, 0])), int(np.mean(corners[:, 1])))
CenterOf(corners) ==
    <<(corners[1][1] + corners[2][1] + corners[3][1] + corners[4][1]) \div 4,
      (corners[1][2] + corners[2][2] + corners[3][2] + corners[4][2]) \div 4>>

Candidate(i, corners) ==
    [id |-> i, name |-> TOOL_MARKERS[i], corners |-> corners, center |-> CenterOf(corners)]

\* The filter of detect_aruco_in_hand_roi on what the oracle reported for
\* the region: unregistered ids and small perimeters are skipped.
RECURSIVE FilterMarkers(_)
FilterMarkers(raw) ==
    IF raw = <<>> THEN <<>>
    ELSE LET m == Head(raw) IN
         IF m.id \notin DOMAIN TOOL_MARKERS \/ m.perimeter < MIN_MARKER_PERIMETER
         THEN FilterMarkers(Tail(raw))
         ELSE <<Candidate(m.id, m.corners)>> \o FilterMarkers(Tail(raw))

DetectArucoInHandRoi(hand_bbox, raw) ==
    IF hand_bbox[3] <= 0 \/ hand_bbox[4] <= 0 THEN <<>> ELSE FilterMarkers(raw)

\* all_detected_tools: the regions' candidates, region after region.
RECURSIVE DetectAll(_, _)
DetectAll(hand_boxes, raws) ==
    IF hand_boxes = <<>> THEN <<>>
    ELSE DetectArucoInHandRoi(Head(hand_boxes), Head(raws))
            \o DetectAll(Tail(hand_boxes), Tail(raws))

\* (variant: hand localization shares the marker detection's schedule)
RunHandsWithAruco(fc) == fc % ARUCO_EVERY_N = 0

RunHands(fc) == fc % HAND_EVERY_N = 0

\* (variant: marker detection and the tracker run on every frame)
RunArucoEveryFrame(fc) == fc >= 0
RunAruco(fc) == fc % ARUCO_EVERY_N = 0

\* ----------------------------------------------------------------- debounce
\* round(confidence, 3), in thousandths
Round3(c) == (2000 * c.num + c.den) \div (2 * c.den)

\* (variant: a tool counts as detected until it has been lost for more than one cycle)
StatusLostBeyondOne(t) == IF t.frames_lost > 1 THEN "tracking" ELSE "detected"

Status(t) == IF t.frames_lost > 0 THEN "tracking" ELSE "detected"

ToolJson(t) ==
    [id |-> t.id, name |-> t.name, confidence |-> Round3(t.confidence), status |-> Status(t)]

\* The ids of a set as a list, in ascending order (the order in which the
\* stable tools are visited here; nothing below depends on it).
RECURSIVE Ascending(_)
Ascending(S) ==
    IF S = {} THEN <<>>
    ELSE LET m == CHOOSE x \in S : \A y \in S : x <= y
         IN <<m>> \o Ascending(S \ {m})

\* (variant: every stable tool is announced in every cycle)
RECURSIVE AnnounceEveryCycle(_, _, _, _)
AnnounceEveryCycle(ids, tools, st, now) ==
    IF ids = <<>> THEN st
    ELSE LET tid == Head(ids)
             nxt == [printed |-> (tid :> now) @@ st.printed,
                     seen |-> (tid :> now) @@ st.seen,
                     events |-> Append(st.events, ToolJson(tools[tid]))]
         IN AnnounceEveryCycle(Tail(ids), tools, nxt, now)

\* The loop over stable_tools: refresh last_seen_time, announce an id that
\* is not in last_printed.  State is [printed, seen, events].
RECURSIVE Announce(_, _, _, _)
Announce(ids, tools, st, now) ==
    IF ids = <<>> THEN st
    ELSE LET tid == Head(ids)
             seen == (tid :> now) @@ st.seen
             nxt == IF tid \notin DOMAIN st.printed
                    THEN [printed |-> (tid :> now) @@ st.printed,
                          seen |-> seen,
                          events |-> Append(st.events, ToolJson(tools[tid]))]
                    ELSE [st EXCEPT !.seen = seen]
         IN Announce(Tail(ids), tools, nxt, now)

\* (variant: an announced id is forgotten as soon as it is outside the stable set)
ForgetAbsentAtOnce(st, current_ids, now) ==
    LET gone == {tid \in DOMAIN st.printed : tid \notin current_ids}
    IN [st EXCEPT !.printed = [t \in DOMAIN st.printed \ gone |-> st.printed[t]],
                  !.seen = [t \in DOMAIN st.seen \ gone |-> st.seen[t]]]

\* The loop over last_printed: an id outside the stable set whose
\* last_seen_time is more than REPRINT_AFTER old is forgotten.
ForgetAbsent(st, current_ids, now) ==
    LET gone == {tid \in DOMAIN st.printed :
                    /\ tid \notin current_ids
                    /\ tid \in DOMAIN st.seen
                    /\ now - st.seen[tid] > REPRINT_AFTER}
    IN [st EXCEPT !.printed = [t \in DOMAIN st.printed \ gone |-> st.printed[t]],
                  !.seen = [t \in DOMAIN st.seen \ gone |-> st.seen[t]]]

Debounce(tr, st, now) ==
    LET current_ids == GetStableTools(tr)
    IN ForgetAbsent(Announce(Ascending(current_ids), tr.tracked_tools, st, now),
                    current_ids, now)

\* --------------------------------------------------------------- publishing
None == [none |-> TRUE]
Jpeg(n) == [frame |-> n]
EmptyDict == [empty |-> TRUE]
\* What one round of the MJPEG generator yields: a multipart chunk, or nothing.
Nothing == [nothing |-> TRUE]
Chunk(frame) == [chunk |-> frame]

\* (variant: only the tools detected in the current cycle are listed)
ActiveToolsJsonDetectedOnly(tr) ==
    {ToolJson(tr.tracked_tools[i]) :
        i \in {j \in GetStableTools(tr) : tr.tracked_tools[j].frames_lost = 0}}

ActiveToolsJson(tr) == {ToolJson(tr.tracked_tools[i]) : i \in GetStableTools(tr)}

\* (variant: the keys 'tools' and 'events' of the published dict are
\* overwritten in place, the other keys keep what they held)
SnapshotInPlace(fps, hand_boxes, tr, events, now) ==
    IF latest_data = EmptyDict
    THEN [fps |-> fps, hands |-> Len(hand_boxes), tools |-> ActiveToolsJson(tr),
          events |-> events, timestamp |-> now]
    ELSE [latest_data EXCEPT !.tools = ActiveToolsJson(tr), !.events = events]

Snapshot(fps, hand_boxes, tr, events, now) ==
    [fps |-> fps, hands |-> Len(hand_boxes), tools |-> ActiveToolsJson(tr),
     events |-> events, timestamp |-> now]

\* The whole value of the current cycle: every key from this cycle.
CycleValue ==
    [fps |-> avg_fps, hands |-> Len(cached_hand_boxes),
     tools |-> {[id |-> i, name |-> tracker.tracked_tools[i].name,
                 confidence |-> Round3(tracker.tracked_tools[i].confidence),
                 status |-> Status(tracker.tracked_tools[i])] : i \in GetStableTools(tracker)},
     events |-> pending_events, timestamp |-> clock]

\* -------------------------------------------------------------------- Init
Init ==
    /\ cap_opened \in BOOLEAN
    /\ pc = IF cap_opened THEN "check" ELSE "returned"   \* "returned": no webcam
    /\ frame_count = 0
    /\ cached_hand_boxes = <<>>
    /\ tracker = ToolTrackerInit
    /\ last_printed = <<>>
    /\ last_seen_time = <<>>
    /\ pending_events = <<>>
    /\ avg_fps = 0
    /\ clock = 0
    /\ camera_active = FALSE
    /\ latest_frame = None
    /\ latest_data = EmptyDict
    /\ frame_lock = "free"
    /\ data_lock = "free"
    /\ ws_clients = {}
    /\ ev_loop = "idle"
    /\ ws = [w \in WsClients |-> [pc |-> "off", data |-> EmptyDict, last_tool_ids |-> {}]]
    /\ mjpeg = [pc |-> "off", frame |-> None, out |-> Nothing]
    /\ health = [pc |-> "off", d |-> EmptyDict]
    /\ born = <<>>
    /\ last_hit = <<>>
    /\ seen_valid = <<>>
    /\ gone_since = <<>>
    /\ tracker_cands = {}
    /\ built = EmptyDict
    /\ pub_frame = 0
    /\ jpeg_pub = 0
    /\ hands_frame = 0
    /\ ws_forwarded = [w \in WsClients |-> 0]

\* -------------------------------------------------- the tracker on its own
RECURSIVE SeqsUpTo(_, _)
SeqsUpTo(S, n) ==
    IF n = 0 THEN {<<>>}
    ELSE LET shorter == SeqsUpTo(S, n - 1)
         IN shorter \cup {Append(s, x) : s \in {q \in shorter : Len(q) = n - 1}, x \in S}

CandidateLists == SeqsUpTo({Candidate(i, MarkerPlace) : i \in TrackerIds}, MaxCandidates)

TrackerCycle ==
    /\ tracker.frame_count < MaxTrackerCycles
    /\ \E detected \in CandidateLists :
          /\ tracker' = ToolTrackerUpdate(tracker, detected)
          /\ born' = BornAfter(tracker, detected)
          /\ last_hit' = LastHitAfter(tracker, detected)
    /\ UNCHANGED <<pc, frame_count, cached_hand_boxes, last_printed, last_seen_time,
                   pending_events, avg_fps, clock>>
    /\ UNCHANGED <<sharedVars, readerVars, seen_valid, gone_since, tracker_cands, cap_opened, hands_frame, jpeg_pub, built, pub_frame, ws_forwarded>>

TrackerInit == Init /\ pc = "check"

SpecTracker == TrackerInit /\ [][TrackerCycle]_vars

\* The tracker on its own, the marker reported at either of two places.
PlacedCandidateLists ==
    SeqsUpTo({Candidate(i, c) : i \in TrackerIds, c \in {MarkerPlace, OtherPlace}},
             MaxCandidates)

PlacedTrackerCycle ==
    /\ tracker.frame_count < MaxDupCycles
    /\ \E detected \in PlacedCandidateLists :
          tracker' = ToolTrackerUpdate(tracker, detected)
    /\ UNCHANGED <<pc, frame_count, cached_hand_boxes, last_printed, last_seen_time,
                   pending_events, avg_fps, clock>>
    /\ UNCHANGED <<sharedVars, readerVars, historyVars>>

SpecPlaced == TrackerInit /\ [][PlacedTrackerCycle]_vars

\* ---------------------------------------------------------------- tracker claims
\* The candidates with, for every id, only its last occurrence kept.
RECURSIVE LaterOnly(_)
LaterOnly(detected) ==
    IF detected = <<>> THEN <<>>
    ELSE IF Head(detected).id \in SeenIds(Tail(detected))
         THEN LaterOnly(Tail(detected))
         ELSE <<Head(detected)>> \o LaterOnly(Tail(detected))

\* C19: when an id occurs twice among one cycle's candidates, every Track
\* after the cycle (center, corners, smoothed_center, history, confidence,
\* frames_lost) is what it would be had only the later candidate of each id
\* been presented.
C19_LaterCandidateIsTheObservation ==
    [][\A detected \in PlacedCandidateLists :
          tracker' = ToolTrackerUpdate(tracker, detected)
          => tracker'.tracked_tools
                = ToolTrackerUpdate(tracker, LaterOnly(detected)).tracked_tools
      ]_vars

Missed(i) == i \notin DOMAIN last_hit' \/ last_hit'[i] # tracker'.frame_count

BelowThreshold(h) == MIN_CONFIDENCE_DEN * Sum(h) < MIN_CONFIDENCE_NUM * Len(h)

\* C1: a Track created at tracker cycle t and never detected again is removed
\* in a cycle exactly when that cycle is t + MAX_LOST_FRAMES + 1 or later, or
\* its confidence after the cycle's miss is below MIN_CONFIDENCE_THRESHOLD;
\* in every earlier cycle it is kept.
C1_RemovedAtEarlierTrigger ==
    [][\A i \in DOMAIN tracker.tracked_tools :
          (/\ tracker'.frame_count = tracker.frame_count + 1
           /\ last_hit[i] = born[i]
           /\ Missed(i))
          => ((i \notin DOMAIN tracker'.tracked_tools)
                <=> \/ tracker'.frame_count >= born[i] + MAX_LOST_FRAMES + 1
                    \/ BelowThreshold(DequeAppend(tracker.tracked_tools[i].detection_history, 0)))
      ]_vars

AllHits(h) == \A k \in 1..Len(h) : h[k] = 1

\* C2: a Track whose history holds only hits and whose id is missing from the
\* candidates of one tracker cycle is still in the stable set after that
\* cycle, whatever the tracker's cycle counter is.
C2_SingleDropoutKept ==
    [][\A i \in DOMAIN tracker.tracked_tools :
          (/\ tracker'.frame_count = tracker.frame_count + 1
           /\ AllHits(tracker.tracked_tools[i].detection_history)
           /\ Missed(i))
          => i \in GetStableTools(tracker')
      ]_vars

\* C3: every Track's confidence equals hits / min(cyclesSeen, windowSize),
\* hits counted over its retained history, cyclesSeen the tracker cycles
\* since its creation (inclusive), and lies within [0, 1].
C3_ConfidenceIsHitsOverCycles ==
    \A i \in DOMAIN tracker.tracked_tools :
        LET t == tracker.tracked_tools[i]
            hits == Sum(t.detection_history)
            cyclesSeen == tracker.frame_count - born[i] + 1
        IN /\ t.confidence.num * Min2(cyclesSeen, DETECTION_HISTORY_SIZE)
                = hits * t.confidence.den
           /\ 0 <= t.confidence.num
           /\ t.confidence.num <= t.confidence.den

\* C18: after every ToolTracker.update every Track the tracker holds is
\* valid, the Tracks detected in that cycle included, so get_stable_tools
\* returns the whole track set.
C18_HeldTracksAreValid ==
    /\ \A i \in DOMAIN tracker.tracked_tools : IsValid(tracker.tracked_tools[i])
    /\ GetStableTools(tracker) = DOMAIN tracker.tracked_tools

\* A Track detected in the last cycle (update did not check it) whose
\* window holds as many misses as validity allows.
C18_Witness ==
    \E i \in DOMAIN tracker.tracked_tools :
        LET t == tracker.tracked_tools[i] IN
        /\ last_hit[i] = tracker.frame_count
        /\ Len(t.detection_history) = DETECTION_HISTORY_SIZE
        /\ MIN_CONFIDENCE_DEN * t.confidence.num = MIN_CONFIDENCE_NUM * t.confidence.den

\* C21: a Track still held after a tracker cycle has missed fewer than 7
\* cycles in a row, so every Track is removed by its 7th consecutive cycle
\* without a detection of its id; and when a Track on which update() has run
\* (last_seen_frame is no longer the 0 of __init__) is removed, its
\* frames_lost is within MAX_LOST_FRAMES: the confidence threshold removes it.
C21_BoundedLinger ==
    [][tracker'.frame_count = tracker.frame_count + 1
       => /\ \A i \in DOMAIN tracker'.tracked_tools :
                tracker'.frame_count - last_hit'[i] < 7
          /\ \A i \in DOMAIN tracker.tracked_tools \ DOMAIN tracker'.tracked_tools :
                LET t == tracker.tracked_tools[i]
                    after == TrackedToolPredict(t, tracker'.frame_count)
                IN t.last_seen_frame # 0
                   => /\ after.frames_lost <= MAX_LOST_FRAMES
                      /\ BelowThreshold(after.detection_history)
      ]_vars

\* An updated Track that has lingered as long as it can: 6 misses in a row
\* behind it, its window full and its confidence exactly at the threshold.
C21_Witness ==
    \E i \in DOMAIN tracker.tracked_tools :
        LET t == tracker.tracked_tools[i] IN
        /\ t.last_seen_frame # 0
        /\ tracker.frame_count - last_hit[i] = 6
        /\ t.frames_lost = 6
        /\ Len(t.detection_history) = DETECTION_HISTORY_SIZE
        /\ ~BelowThreshold(t.detection_history)

\* ------------------------------------------------------ the detector thread
\* Time passing while the thread blocks.
Elapse(maxClock) == \E dt \in TimeSteps : clock + dt <= maxClock /\ clock' = clock + dt

\* (variant: the loop is entered although the webcam could not be opened)
CheckActiveWithoutReturn ==
    /\ pc \in {"check", "returned"}
    /\ pc' = IF camera_active THEN "read" ELSE "idle_flock"
    /\ UNCHANGED <<frame_count, cached_hand_boxes, tracker,
                   last_printed, last_seen_time, pending_events, avg_fps, clock>>
    /\ UNCHANGED <<sharedVars, readerVars, historyVars>>

\* while True: if not camera_active.is_set(): ...
CheckActive ==
    /\ pc = "check"
    /\ pc' = IF camera_active THEN "read" ELSE "idle_flock"
    /\ UNCHANGED <<frame_count, cached_hand_boxes, tracker,
                   last_printed, last_seen_time, pending_events, avg_fps, clock>>
    /\ UNCHANGED <<sharedVars, readerVars, historyVars>>

\* with frame_lock: latest_frame = None
IdleFrameLock ==
    /\ pc = "idle_flock"
    /\ frame_lock = "free"
    /\ frame_lock' = "detector"
    /\ pc' = "idle_fwrite"
    /\ UNCHANGED <<frame_count, cached_hand_boxes, tracker,
                   last_printed, last_seen_time, pending_events, avg_fps, clock>>
    /\ UNCHANGED <<camera_active, latest_frame, latest_data, data_lock, ws_clients>>
    /\ UNCHANGED <<readerVars, historyVars>>

IdleFrameClear ==
    /\ pc = "idle_fwrite"
    /\ latest_frame' = None
    /\ frame_lock' = "free"
    /\ pc' = "idle_dlock"
    /\ UNCHANGED <<frame_count, cached_hand_boxes, tracker,
                   last_printed, last_seen_time, pending_events, avg_fps, clock>>
    /\ UNCHANGED <<camera_active, latest_data, data_lock, ws_clients>>
    /\ UNCHANGED <<readerVars, historyVars>>

\* with data_lock: latest_data = {}
IdleDataLock ==
    /\ pc = "idle_dlock"
    /\ data_lock = "free"
    /\ data_lock' = "detector"
    /\ pc' = "idle_dwrite"
    /\ UNCHANGED <<frame_count, cached_hand_boxes, tracker,
                   last_printed, last_seen_time, pending_events, avg_fps, clock>>
    /\ UNCHANGED <<camera_active, latest_frame, latest_data, frame_lock, ws_clients>>
    /\ UNCHANGED <<readerVars, historyVars>>

IdleDataClear ==
    /\ pc = "idle_dwrite"
    /\ latest_data' = EmptyDict
    /\ built' = EmptyDict
    /\ data_lock' = "free"
    /\ pc' = "idle_sleep"
    /\ UNCHANGED <<frame_count, cached_hand_boxes, tracker,
                   last_printed, last_seen_time, pending_events, avg_fps, clock>>
    /\ UNCHANGED <<camera_active, latest_frame, frame_lock, ws_clients>>
    /\ UNCHANGED <<readerVars, born, last_hit, seen_valid, gone_since, tracker_cands, cap_opened, hands_frame, jpeg_pub, pub_frame, ws_forwarded>>

\* (variant: the idle branch sleeps and clears again without reading the flag)
IdleSleepWithoutRecheck(maxClock) ==
    /\ pc = "idle_sleep"
    /\ Elapse(maxClock)
    /\ pc' = "idle_flock"
    /\ UNCHANGED <<frame_count, cached_hand_boxes, tracker,
                   last_printed, last_seen_time, pending_events, avg_fps>>
    /\ UNCHANGED <<sharedVars, readerVars, historyVars>>

\* time.sleep(0.2); continue
IdleSleep(maxClock) ==
    /\ pc = "idle_sleep"
    /\ Elapse(maxClock)
    /\ pc' = "check"
    /\ UNCHANGED <<frame_count, cached_hand_boxes, tracker,
                   last_printed, last_seen_time, pending_events, avg_fps>>
    /\ UNCHANGED <<sharedVars, readerVars, historyVars>>

\* ret, frame = cap.read(), ret true
ReadFrame(maxFrames, maxClock) ==
    /\ pc = "read"
    /\ frame_count < maxFrames
    /\ Elapse(maxClock)
    /\ pc' = "process"
    /\ UNCHANGED <<frame_count, cached_hand_boxes, tracker,
                   last_printed, last_seen_time, pending_events, avg_fps>>
    /\ UNCHANGED <<sharedVars, readerVars, historyVars>>

\* (variant: the frame counter also counts the failed acquisitions)
ReadFailsCountsFrame(maxClock) ==
    /\ pc = "read"
    /\ Elapse(maxClock)
    /\ pc' = "check"
    /\ frame_count' = frame_count + 1
    /\ UNCHANGED <<cached_hand_boxes, tracker,
                   last_printed, last_seen_time, pending_events, avg_fps>>
    /\ UNCHANGED <<sharedVars, readerVars, historyVars>>

\* ret false: time.sleep(0.05); continue
ReadFails(maxClock) ==
    /\ pc = "read"
    /\ Elapse(maxClock)
    /\ pc' = "check"
    /\ UNCHANGED <<frame_count, cached_hand_boxes, tracker,
                   last_printed, last_seen_time, pending_events, avg_fps>>
    /\ UNCHANGED <<sharedVars, readerVars, historyVars>>

\* The hand regions of cycle fc, given what the hand oracle reports.
HandBoxesOf(fc, hand_result) ==
    IF RunHands(fc) THEN GetHandBoundingBoxes(hand_result) ELSE cached_hand_boxes

\* Lines 316-406: one frame through hand localization, marker detection,
\* the tracker and the debounce, up to the encoded frame.
ProcessFrame ==
    /\ pc = "process"
    /\ \E hand_result \in (IF RunHands(frame_count + 1) THEN HandResults ELSE {<<>>}),
          raws \in (IF RunAruco(frame_count + 1)
                    THEN [1..MAX_NUM_HANDS -> RegionResults] ELSE {<<>>}),
          fps \in FpsValues :
          LET fc == frame_count + 1
              hand_boxes == HandBoxesOf(fc, hand_result)
              detected == IF RunAruco(fc) THEN DetectAll(hand_boxes, raws) ELSE <<>>
              tr == IF RunAruco(fc) THEN ToolTrackerUpdate(tracker, detected) ELSE tracker
              db == Debounce(tr, [printed |-> last_printed, seen |-> last_seen_time,
                                  events |-> pending_events], clock)
              stable == GetStableTools(tr)
          IN /\ frame_count' = fc
             /\ avg_fps' = fps
             /\ cached_hand_boxes' = hand_boxes
             /\ tracker' = tr
             /\ last_printed' = db.printed
             /\ last_seen_time' = db.seen
             /\ pending_events' = db.events
             /\ seen_valid' = [i \in DOMAIN seen_valid \cup stable |->
                                  IF i \in stable THEN clock ELSE seen_valid[i]]
             /\ gone_since' = [i \in (DOMAIN seen_valid \cup DOMAIN gone_since) \ stable |->
                                  IF i \in DOMAIN gone_since THEN gone_since[i] ELSE clock]
             /\ tracker_cands' = IF RunAruco(fc) THEN SeenIds(detected) ELSE tracker_cands
             /\ hands_frame' = IF RunHands(fc) THEN fc ELSE hands_frame
    /\ pc' = "pub_flock"
    /\ UNCHANGED <<clock, born, last_hit, cap_opened, jpeg_pub, built, pub_frame, ws_forwarded>>
    /\ UNCHANGED <<sharedVars, readerVars>>

\* hands.process or the marker detection raises: nothing in the loop
\* catches it, and the thread ends.
OracleRaises ==
    /\ pc = "process"
    /\ LET fc == frame_count + 1 IN
       /\ frame_count' = fc
       /\ \/ /\ RunHands(fc)                     \* hands.process raises
             /\ UNCHANGED cached_hand_boxes
          \/ /\ RunAruco(fc)                     \* detect_aruco_in_hand_roi raises
             /\ \E hand_result \in HandResults :
                   /\ HandBoxesOf(fc, hand_result) # <<>>
                   /\ cached_hand_boxes' = HandBoxesOf(fc, hand_result)
    /\ pc' = "crashed"
    /\ \E fps \in FpsValues : avg_fps' = fps
    /\ UNCHANGED <<tracker, last_printed, last_seen_time,
                   pending_events, clock>>
    /\ UNCHANGED <<sharedVars, readerVars, historyVars>>

\* with frame_lock: latest_frame = jpeg.tobytes()
PubFrameLock ==
    /\ pc = "pub_flock"
    /\ frame_lock = "free"
    /\ frame_lock' = "detector"
    /\ pc' = "pub_fwrite"
    /\ UNCHANGED <<frame_count, cached_hand_boxes, tracker,
                   last_printed, last_seen_time, pending_events, avg_fps, clock>>
    /\ UNCHANGED <<camera_active, latest_frame, latest_data, data_lock, ws_clients>>
    /\ UNCHANGED <<readerVars, historyVars>>

PubFrameWrite ==
    /\ pc = "pub_fwrite"
    /\ latest_frame' = Jpeg(frame_count)
    /\ jpeg_pub' = frame_count
    /\ frame_lock' = "free"
    /\ pc' = "pub_dlock"
    /\ UNCHANGED <<frame_count, cached_hand_boxes, tracker,
                   last_printed, last_seen_time, pending_events, avg_fps, clock>>
    /\ UNCHANGED <<camera_active, latest_data, data_lock, ws_clients>>
    /\ UNCHANGED <<readerVars, born, last_hit, seen_valid, gone_since, tracker_cands,
                   cap_opened, hands_frame, built, pub_frame, ws_forwarded>>

\* with data_lock: latest_data = {...}; pending_events.clear()
PubDataLock ==
    /\ pc = "pub_dlock"
    /\ data_lock = "free"
    /\ data_lock' = "detector"
    /\ pc' = "pub_dwrite"
    /\ UNCHANGED <<frame_count, cached_hand_boxes, tracker,
                   last_printed, last_seen_time, pending_events, avg_fps, clock>>
    /\ UNCHANGED <<camera_active, latest_frame, latest_data, frame_lock, ws_clients>>
    /\ UNCHANGED <<readerVars, historyVars>>

\* (variant: pending_events is not cleared after the publish)
PubDataWriteKeepsPending ==
    /\ pc = "pub_dwrite"
    /\ LET data == Snapshot(avg_fps, cached_hand_boxes, tracker, pending_events, clock)
       IN /\ latest_data' = data
          /\ built' = CycleValue
          /\ pub_frame' = frame_count
    /\ data_lock' = "free"
    /\ pc' = "check"
    /\ UNCHANGED <<frame_count, cached_hand_boxes, tracker,
                   last_printed, last_seen_time, pending_events, avg_fps, clock>>
    /\ UNCHANGED <<camera_active, latest_frame, frame_lock, ws_clients>>
    /\ UNCHANGED <<readerVars, born, last_hit, seen_valid, gone_since, tracker_cands, cap_opened, hands_frame, jpeg_pub, ws_forwarded>>

PubDataWrite ==
    /\ pc = "pub_dwrite"
    /\ LET data == Snapshot(avg_fps, cached_hand_boxes, tracker, pending_events, clock)
       IN /\ latest_data' = data
          /\ built' = CycleValue
          /\ pub_frame' = frame_count
    /\ pending_events' = <<>>
    /\ data_lock' = "free"
    /\ pc' = "check"
    /\ UNCHANGED <<frame_count, cached_hand_boxes, tracker,
                   last_printed, last_seen_time, avg_fps, clock>>
    /\ UNCHANGED <<camera_active, latest_frame, frame_lock, ws_clients>>
    /\ UNCHANGED <<readerVars, born, last_hit, seen_valid, gone_since, tracker_cands, cap_opened, hands_frame, jpeg_pub, ws_forwarded>>

\* ------------------------------------------------------------ camera control
CameraStart ==
    /\ camera_active' = TRUE
    /\ UNCHANGED <<latest_frame, latest_data, frame_lock, data_lock, ws_clients>>
    /\ UNCHANGED <<detectorVars, readerVars, historyVars>>

CameraStop ==
    /\ camera_active' = FALSE
    /\ UNCHANGED <<latest_frame, latest_data, frame_lock, data_lock, ws_clients>>
    /\ UNCHANGED <<detectorVars, readerVars, historyVars>>

Detector(maxFrames, maxClock) ==
    \/ CheckActive
    \/ IdleFrameLock \/ IdleFrameClear \/ IdleDataLock \/ IdleDataClear
    \/ IdleSleep(maxClock)
    \/ ReadFrame(maxFrames, maxClock) \/ ReadFails(maxClock)
    \/ ProcessFrame \/ OracleRaises
    \/ PubFrameLock \/ PubFrameWrite \/ PubDataLock \/ PubDataWrite

\* The detector loop and the camera endpoints, no reader attached.
PipeNext == Detector(MaxFrames, MaxClock) \/ CameraStart \/ CameraStop

SpecPipe == Init /\ [][PipeNext]_vars

\* The same over a shorter run, the detector thread being scheduled again
\* and again.
IdleNext == Detector(IdleFrames, IdleClock) \/ CameraStart \/ CameraStop

FairSpecIdle == Init /\ [][IdleNext]_vars /\ WF_vars(Detector(IdleFrames, IdleClock))

\* ------------------------------------------------- the detection WebSocket
\* ws_detection is a coroutine: between two awaits it runs alone on the
\* event loop (ev_loop names it); threading locks are taken from there.
WsSet(w, rec) == [ws EXCEPT ![w] = rec]

\* await ws.accept(); ws_clients.append(ws); last_tool_ids = set(); the
\* coroutine goes on to its first "with data_lock".
WsConnect(w) ==
    /\ ws[w].pc \in {"off", "closed"}
    /\ ev_loop = "idle"
    /\ ev_loop' = w
    /\ ws_clients' = ws_clients \cup {w}
    /\ ws' = WsSet(w, [pc |-> "lock", data |-> EmptyDict, last_tool_ids |-> {}])
    /\ UNCHANGED <<camera_active, latest_frame, latest_data, frame_lock, data_lock>>
    /\ UNCHANGED <<detectorVars, mjpeg, health, historyVars>>

WsAcquire(w) ==
    /\ ws[w].pc = "lock"
    /\ data_lock = "free"
    /\ data_lock' = w
    /\ ws' = WsSet(w, [ws[w] EXCEPT !.pc = "locked"])
    /\ UNCHANGED <<camera_active, latest_frame, latest_data, frame_lock, ws_clients>>
    /\ UNCHANGED <<detectorVars, ev_loop, mjpeg, health, historyVars>>

\* if data: ... if has_events or current_ids != last_tool_ids
ShouldSend(data, last_tool_ids) ==
    /\ data # EmptyDict
    /\ (data.events # <<>> \/ {t.id : t \in data.tools} # last_tool_ids)

\* Bookkeeping of the decision: the frame whose events client w is about to
\* be sent, when the copy carries events.
ForwardedAfter(w) ==
    IF ShouldSend(latest_data, ws[w].last_tool_ids) /\ latest_data.events # <<>>
    THEN [ws_forwarded EXCEPT ![w] = pub_frame]
    ELSE ws_forwarded

\* (variant: the lock is still held when the coroutine awaits)
WsCopyHoldingLock(w) ==
    /\ ws[w].pc = "locked"
    /\ ws' = WsSet(w, [ws[w] EXCEPT
                          !.data = latest_data,
                          !.pc = IF ShouldSend(latest_data, ws[w].last_tool_ids)
                                 THEN "send" ELSE "sleep"])
    /\ ev_loop' = "idle"
    /\ ws_forwarded' = ForwardedAfter(w)
    /\ UNCHANGED <<sharedVars, detectorVars, mjpeg, health>>
    /\ UNCHANGED <<born, last_hit, seen_valid, gone_since, tracker_cands, cap_opened, hands_frame, jpeg_pub, built, pub_frame>>

\* data = dict(latest_data), the lock released, then the decision; the
\* coroutine awaits either ws.send_json or asyncio.sleep.
WsCopy(w) ==
    /\ ws[w].pc = "locked"
    /\ data_lock' = "free"
    /\ ws' = WsSet(w, [ws[w] EXCEPT
                          !.data = latest_data,
                          !.pc = IF ShouldSend(latest_data, ws[w].last_tool_ids)
                                 THEN "send" ELSE "sleep"])
    /\ ev_loop' = "idle"
    /\ ws_forwarded' = ForwardedAfter(w)
    /\ UNCHANGED <<camera_active, latest_frame, latest_data, frame_lock, ws_clients>>
    /\ UNCHANGED <<detectorVars, mjpeg, health>>
    /\ UNCHANGED <<born, last_hit, seen_valid, gone_since, tracker_cands, cap_opened, hands_frame, jpeg_pub, built, pub_frame>>

\* send_json returns: last_tool_ids = current_ids; await asyncio.sleep(0.1)
WsSent(w) ==
    /\ ws[w].pc = "send"
    /\ ev_loop = "idle"
    /\ ws' = WsSet(w, [ws[w] EXCEPT !.last_tool_ids = {t.id : t \in ws[w].data.tools},
                                    !.pc = "sleep"])
    /\ UNCHANGED <<sharedVars, detectorVars, ev_loop, mjpeg, health, historyVars>>

\* (variant: the failure of one send empties the registry)
WsSendFailsClearsAll(w) ==
    /\ ws[w].pc = "send"
    /\ ev_loop = "idle"
    /\ ws_clients' = {}
    /\ ws' = WsSet(w, [pc |-> "closed", data |-> EmptyDict, last_tool_ids |-> {}])
    /\ ws_forwarded' = [ws_forwarded EXCEPT ![w] = 0]
    /\ UNCHANGED <<camera_active, latest_frame, latest_data, frame_lock, data_lock>>
    /\ UNCHANGED <<detectorVars, ev_loop, mjpeg, health>>
    /\ UNCHANGED <<born, last_hit, seen_valid, gone_since, tracker_cands, cap_opened, hands_frame, jpeg_pub, built, pub_frame>>

\* send_json raises (the client is gone): finally removes the client, and
\* the coroutine ends ("closed"; the client may connect again)
WsSendFails(w) ==
    /\ ws[w].pc = "send"
    /\ ev_loop = "idle"
    /\ ws_clients' = ws_clients \ {w}
    /\ ws' = WsSet(w, [pc |-> "closed", data |-> EmptyDict, last_tool_ids |-> {}])
    /\ ws_forwarded' = [ws_forwarded EXCEPT ![w] = 0]
    /\ UNCHANGED <<camera_active, latest_frame, latest_data, frame_lock, data_lock>>
    /\ UNCHANGED <<detectorVars, ev_loop, mjpeg, health>>
    /\ UNCHANGED <<born, last_hit, seen_valid, gone_since, tracker_cands, cap_opened, hands_frame, jpeg_pub, built, pub_frame>>

\* asyncio.sleep returns: the next round of the loop
WsWake(w) ==
    /\ ws[w].pc = "sleep"
    /\ ev_loop = "idle"
    /\ ev_loop' = w
    /\ ws' = WsSet(w, [ws[w] EXCEPT !.pc = "lock"])
    /\ UNCHANGED <<sharedVars, detectorVars, mjpeg, health, historyVars>>

\* --------------------------------------------------------- the MJPEG stream
MjpegOpen ==
    /\ mjpeg.pc = "off"
    /\ mjpeg' = [mjpeg EXCEPT !.pc = "lock"]
    /\ UNCHANGED <<sharedVars, detectorVars, ev_loop, ws, health, historyVars>>

MjpegAcquire ==
    /\ mjpeg.pc = "lock"
    /\ frame_lock = "free"
    /\ frame_lock' = "mjpeg"
    /\ mjpeg' = [mjpeg EXCEPT !.pc = "locked"]
    /\ UNCHANGED <<camera_active, latest_frame, latest_data, data_lock, ws_clients>>
    /\ UNCHANGED <<detectorVars, ev_loop, ws, health, historyVars>>

\* frame = latest_frame
MjpegCopy ==
    /\ mjpeg.pc = "locked"
    /\ frame_lock' = "free"
    /\ mjpeg' = [pc |-> "emit", frame |-> latest_frame, out |-> Nothing]
    /\ UNCHANGED <<camera_active, latest_frame, latest_data, data_lock, ws_clients>>
    /\ UNCHANGED <<detectorVars, ev_loop, ws, health, historyVars>>

\* (variant: the chunk is yielded whatever the copy holds)
MjpegEmitAlways ==
    /\ mjpeg.pc = "emit"
    /\ mjpeg' = [mjpeg EXCEPT !.pc = "yielded", !.out = Chunk(mjpeg.frame)]
    /\ UNCHANGED <<sharedVars, detectorVars, ev_loop, ws, health, historyVars>>

\* if frame: yield (b'--frame...' + frame + ...)
MjpegEmit ==
    /\ mjpeg.pc = "emit"
    /\ mjpeg' = [mjpeg EXCEPT !.pc = "yielded",
                              !.out = IF mjpeg.frame # None THEN Chunk(mjpeg.frame)
                                      ELSE Nothing]
    /\ UNCHANGED <<sharedVars, detectorVars, ev_loop, ws, health, historyVars>>

\* time.sleep(0.033), and the next round
MjpegSleep ==
    /\ mjpeg.pc = "yielded"
    /\ mjpeg' = [mjpeg EXCEPT !.pc = "lock", !.out = Nothing]
    /\ UNCHANGED <<sharedVars, detectorVars, ev_loop, ws, health, historyVars>>

\* -------------------------------------------------------- the health endpoint
HealthAcquire ==
    /\ health.pc = "off"
    /\ data_lock = "free"
    /\ data_lock' = "health"
    /\ health' = [health EXCEPT !.pc = "locked"]
    /\ UNCHANGED <<camera_active, latest_frame, latest_data, frame_lock, ws_clients>>
    /\ UNCHANGED <<detectorVars, ev_loop, ws, mjpeg, historyVars>>

\* d = dict(latest_data)
HealthCopy ==
    /\ health.pc = "locked"
    /\ data_lock' = "free"
    /\ health' = [pc |-> "respond", d |-> latest_data]
    /\ UNCHANGED <<camera_active, latest_frame, latest_data, frame_lock, ws_clients>>
    /\ UNCHANGED <<detectorVars, ev_loop, ws, mjpeg, historyVars>>

HealthRespond ==
    /\ health.pc = "respond"
    /\ health' = [pc |-> "off", d |-> EmptyDict]
    /\ UNCHANGED <<sharedVars, detectorVars, ev_loop, ws, mjpeg, historyVars>>

Readers(clients) ==
    \/ \E w \in clients :
          WsConnect(w) \/ WsAcquire(w) \/ WsCopy(w) \/ WsSent(w) \/ WsSendFails(w) \/ WsWake(w)
    \/ MjpegOpen \/ MjpegAcquire \/ MjpegCopy \/ MjpegEmit \/ MjpegSleep
    \/ HealthAcquire \/ HealthCopy \/ HealthRespond

\* The detector loop, the camera endpoints and the readers, interleaved:
\* one WebSocket client, the MJPEG stream and the health endpoint.
Next == Detector(ConcFrames, ConcClock) \/ CameraStart \/ CameraStop \/ Readers({"w1"})

Spec == Init /\ [][Next]_vars

\* The detector loop, the camera endpoints and every WebSocket client.
WsClient(w) ==
    WsConnect(w) \/ WsAcquire(w) \/ WsCopy(w) \/ WsSent(w) \/ WsSendFails(w) \/ WsWake(w)

ClientsNext ==
    Detector(ClientFrames, ConcClock) \/ CameraStart \/ CameraStop
        \/ \E w \in WsClients : WsClient(w)

SpecClients == Init /\ [][ClientsNext]_vars

\* ------------------------------------------------------ concurrency claims
ToolIds(data) == {t.id : t \in data.tools}


\* C8: whatever a reader of the snapshot slot obtains (the WebSocket's data,
\* the health endpoint's d) is the whole value last built for the slot: the
\* empty dict of the idle branch, or fps, hands, tools, events and timestamp
\* of one and the same cycle; and the slot never holds anything else.
C8_ReaderSeesWholeValue ==
    [][/\ latest_data' = built'
       /\ \A w \in WsClients :
             (ws[w].pc = "locked" /\ ws'[w].pc # "locked") => ws'[w].data = built'
       /\ (health.pc = "locked" /\ health'.pc # "locked") => health'.d = built'
      ]_vars

\* A read concurrent with a publish: the WebSocket holds data_lock while the
\* detector, a different Snapshot in hand, waits for it.
C8_Witness ==
    /\ ws["w1"].pc = "locked"
    /\ pc = "pub_dlock"
    /\ latest_data # EmptyDict
    /\ CycleValue # latest_data

Held(lock, holder) == lock = holder

\* C9: no thread holds frame_lock and data_lock together; a lock is held
\* exactly while its holder stands between taking it and the single slot
\* read or replace that releases it (never while reading a frame, running
\* an oracle, sending, or sleeping); and a held lock can be released at
\* once, so nobody waits for ever.
C9_LockDiscipline ==
    /\ frame_lock \in {"free", "detector", "mjpeg"}
    /\ data_lock \in {"free", "detector", "health"} \cup WsClients
    /\ ~(Held(frame_lock, "detector") /\ Held(data_lock, "detector"))
    /\ Held(frame_lock, "detector") <=> pc \in {"idle_fwrite", "pub_fwrite"}
    /\ Held(data_lock, "detector") <=> pc \in {"idle_dwrite", "pub_dwrite"}
    /\ Held(frame_lock, "mjpeg") <=> mjpeg.pc = "locked"
    /\ Held(data_lock, "health") <=> health.pc = "locked"
    /\ \A w \in WsClients : Held(data_lock, w) <=> ws[w].pc = "locked"
    /\ frame_lock # "free" => ENABLED (IdleFrameClear \/ PubFrameWrite \/ MjpegCopy)
    /\ data_lock # "free"
          => ENABLED (IdleDataClear \/ PubDataWrite \/ HealthCopy
                        \/ \E w \in WsClients : WsCopy(w))

\* Client w decides in this step to forward its copy.
Forwards(w) == ws[w].pc = "locked" /\ ws'[w].pc = "send"

\* C11: the WebSocket forwards a Snapshot to a client only when its set of
\* tool ids differs from the set last forwarded to that client or it
\* carries events not yet sent to that client; the events of one Snapshot
\* are never forwarded twice to the same client.
C11_ForwardsOnlyNews ==
    [][\A w \in WsClients :
          Forwards(w)
          => /\ \/ ToolIds(ws'[w].data) # ws[w].last_tool_ids
                \/ (ws'[w].data.events # <<>> /\ pub_frame # ws_forwarded[w])
             /\ ws'[w].data.events # <<>> => pub_frame # ws_forwarded[w]
      ]_vars

\* Client w has been attached since before the Snapshot in the slot was
\* published (it holds a copy of an earlier one) and has not read this one.
HasNotRead(w) ==
    /\ w \in ws_clients
    /\ ws[w].data # EmptyDict
    /\ ws_forwarded[w] # pub_frame

\* C22: a Snapshot carrying events is not replaced in the slot, by the next
\* Snapshot or by the empty value of the idle branch, before every attached
\* client has read it, so every published event reaches every client that
\* stays connected.
C22_EventsReadBeforeReplaced ==
    [][(/\ latest_data # EmptyDict
        /\ latest_data.events # <<>>
        /\ latest_data' # latest_data)
       => \A w \in WsClients : ~HasNotRead(w)
      ]_vars

\* C13: when the webcam could not be opened at startup the loop is never
\* entered: the thread has returned, no frame was acquired and neither
\* slot was ever written, whatever start / stop commands were given.
C13_NoLoopWithoutCamera ==
    ~cap_opened
    => /\ pc = "returned"
       /\ frame_count = 0
       /\ latest_frame = None
       /\ latest_data = EmptyDict
       /\ pub_frame = 0

\* The webcam could not be opened, start() was called, and the MJPEG
\* generator and a WebSocket client have polled the slots.
C13_Witness ==
    /\ ~cap_opened
    /\ camera_active
    /\ mjpeg.pc = "yielded"
    /\ ws["w1"].pc = "sleep"

\* C15: a step that removes client w from the registry removes only w:
\* every other client keeps its registration, its position, its copy and
\* its last-forwarded id set, and the detector's state, the two slots, the
\* locks and the activation flag are untouched.
C15_OnlyThatConsumerRemoved ==
    [][\A w \in WsClients :
          (w \in ws_clients /\ w \notin ws_clients')
          => /\ ws_clients' = ws_clients \ {w}
             /\ \A v \in WsClients \ {w} :
                   ws'[v] = ws[v] /\ ws_forwarded'[v] = ws_forwarded[v]
             /\ UNCHANGED <<detectorVars, camera_active, latest_frame, latest_data,
                            frame_lock, data_lock>>
      ]_vars

\* w1's send has failed and w1 is gone, while w2 is registered and has
\* been forwarded a Snapshot with a tool.
C15_Witness ==
    /\ ws["w1"].pc = "closed"
    /\ ws_clients = {"w2"}
    /\ ws["w2"].last_tool_ids # {}

\* C16: whatever a round of the MJPEG generator yields is a frame the
\* producer has written to the frame slot, and a round that found the slot
\* empty (before the first publish, or after the idle branch cleared it)
\* yields nothing.
C16_EmitsOnlyPublishedFrames ==
    /\ mjpeg.out # Nothing
          => \E n \in 1..jpeg_pub : mjpeg.out = Chunk(Jpeg(n))
    /\ (mjpeg.pc = "yielded" /\ mjpeg.frame = None) => mjpeg.out = Nothing
    /\ latest_frame # None => latest_frame = Jpeg(jpeg_pub)

\* The generator found the slot empty after the idle branch had cleared a
\* published frame, and has yielded nothing in that round.
C16_Witness ==
    /\ mjpeg.pc = "yielded"
    /\ mjpeg.frame = None
    /\ jpeg_pub > 0
    /\ latest_frame = None

\* The generator has yielded a published frame.
C16_WitnessFrame ==
    /\ mjpeg.pc = "yielded"
    /\ mjpeg.out # Nothing

\* Both locks are held at once, by different threads, while the detector
\* waits for one of them.
C9_Witness ==
    /\ pc = "pub_dlock"
    /\ Held(data_lock, "w1")
    /\ Held(frame_lock, "mjpeg")

\* --------------------------------------------------------- pipeline claims
\* A frame goes through lines 316-406 in this step.
Processed == pc = "process" /\ pc' = "pub_flock"

\* C4, as claimed: on a cycle without marker detection every existing Track
\* gets a miss appended to its history (or is dropped by it).
C4_SkippedCycleIsMiss ==
    [][(Processed /\ frame_count' % ARUCO_EVERY_N # 0)
          => \A i \in DOMAIN tracker.tracked_tools :
                i \in DOMAIN tracker'.tracked_tools
                => tracker'.tracked_tools[i].detection_history
                      = DequeAppend(tracker.tracked_tools[i].detection_history, 0)
      ]_vars

\* C4, amended: on a cycle without marker detection the tracker is not
\* invoked: its cycle counter and every Track (history, frames_lost,
\* confidence) are left as they were.
C4_SkippedCycleLeavesTracker ==
    [][(Processed /\ frame_count' % ARUCO_EVERY_N # 0) => tracker' = tracker]_vars

\* A cycle without marker detection has run while a Track existed.
C4_Witness ==
    /\ pc = "pub_flock"
    /\ frame_count % ARUCO_EVERY_N # 0
    /\ DOMAIN tracker.tracked_tools # {}

\* The events the current step appends for id i.
EmittedCount(i) ==
    Cardinality({k \in (Len(pending_events) + 1)..Len(pending_events') :
                    pending_events'[k].id = i})

\* C5: an id is announced once, in the cycle of its first appearance in the
\* stable set; no event is emitted for it while it stays in the stable set,
\* nor when it is stable again within REPRINT_AFTER seconds of the last
\* cycle in which it was stable (at one cycle per second: after fewer than
\* REPRINT_AFTER absent cycles).
C5_NoEventWithinWindow ==
    [][Processed
          => \A i \in DOMAIN TOOL_MARKERS :
                /\ EmittedCount(i) <= 1
                /\ EmittedCount(i) = 1 => i \in GetStableTools(tracker')
                /\ (i \in GetStableTools(tracker') /\ i \notin DOMAIN seen_valid)
                      => EmittedCount(i) = 1
                /\ i \in GetStableTools(tracker) => EmittedCount(i) = 0
                /\ (i \in DOMAIN seen_valid /\ clock' - seen_valid[i] <= REPRINT_AFTER)
                      => EmittedCount(i) = 0
      ]_vars

\* Id 20, announced earlier and dropped by the tracker since, has just been
\* detected again within the window, and no event is pending for it.
C5_Witness ==
    /\ pc = "pub_flock"
    /\ frame_count % ARUCO_EVERY_N = 0
    /\ 20 \in GetStableTools(tracker)
    /\ tracker.tracked_tools[20].detection_history = <<1>>
    /\ 20 \in DOMAIN last_printed
    /\ last_printed[20] < clock
    /\ clock - last_printed[20] <= REPRINT_AFTER
    /\ pending_events = <<>>

\* C6: an id that has been outside the stable set for REPRINT_AFTER seconds
\* or more (counted from the first cycle in which it was no longer stable)
\* and is stable again is announced in the cycle of its reappearance,
\* whether or not the loop idled in between.
C6_ReappearanceAnnounced ==
    [][Processed
          => \A i \in DOMAIN gone_since :
                (/\ i \in GetStableTools(tracker')
                 /\ clock' - gone_since[i] >= REPRINT_AFTER)
                => EmittedCount(i) = 1
      ]_vars

\* C7: the tools of the published Snapshot are exactly the tracker's valid
\* tracks, each with its name, confidence and status, whatever last_printed
\* and last_seen_time hold.  (The tracker changes only in the step that
\* processes the next frame, and that frame's Snapshot replaces this one.)
C7_ToolsAreTheValidTracks ==
    (pc \notin {"pub_flock", "pub_fwrite", "pub_dlock", "pub_dwrite"}
        /\ latest_data # EmptyDict)
    => /\ ToolIds(latest_data) = GetStableTools(tracker)
       /\ \A t \in latest_data.tools :
             /\ t.name = tracker.tracked_tools[t.id].name
             /\ t.confidence = Round3(tracker.tracked_tools[t.id].confidence)
             /\ t.status = Status(tracker.tracked_tools[t.id])

\* A Snapshot lists a tool whose event is suppressed: id 20 is listed as
\* "tracking", was announced before, and the Snapshot carries no event.
C7_Witness ==
    /\ pc = "check"
    /\ latest_data # EmptyDict
    /\ \E t \in latest_data.tools : t.id = 20 /\ t.status = "tracking"
    /\ latest_data.events = <<>>
    /\ 20 \in DOMAIN last_printed

\* The Snapshot in latest_data is the one of the tracker's current state.
SnapshotIsCurrent ==
    /\ pc \notin {"pub_flock", "pub_fwrite", "pub_dlock", "pub_dwrite"}
    /\ latest_data # EmptyDict

\* The ids among the detection candidates of the cycle that built the
\* published Snapshot: none when that cycle ran no marker detection.
CandidatesOfPublished == IF pub_frame % ARUCO_EVERY_N = 0 THEN tracker_cands ELSE {}

\* C12, as claimed: a published tool is 'detected' exactly when its id was
\* among the candidates of the cycle that built the Snapshot.
C12_DetectedIsSeenThisCycle ==
    SnapshotIsCurrent
    => \A t \in latest_data.tools :
          t.status = "detected" <=> t.id \in CandidatesOfPublished

\* C12, amended: a published tool is 'detected' exactly when its id was
\* among the candidates of the most recent cycle in which marker detection
\* ran (the cycle that built the Snapshot, or an earlier one when that
\* cycle ran none), and 'tracking' otherwise.
C12_DetectedIsSeenAtLastDetection ==
    SnapshotIsCurrent
    => \A t \in latest_data.tools :
          /\ t.status \in {"detected", "tracking"}
          /\ t.status = "detected" <=> t.id \in tracker_cands

\* A Snapshot built by a cycle without marker detection lists a tool as
\* 'detected'.
C12_Witness ==
    /\ SnapshotIsCurrent
    /\ pub_frame % ARUCO_EVERY_N # 0
    /\ \E t \in latest_data.tools : t.status = "detected"

\* A Snapshot built by a cycle with marker detection lists a tool that was
\* not among the candidates, as 'tracking'.
C12_WitnessTracking ==
    /\ SnapshotIsCurrent
    /\ pub_frame % ARUCO_EVERY_N = 0
    /\ \E t \in latest_data.tools : t.status = "tracking" /\ t.id \notin tracker_cands

\* C14: a failed frame acquisition (the loop goes from cap.read straight
\* back to its head) leaves the frame counter, the hand-region cache, the
\* tracker, the debounce maps, the pending events and both slots as they
\* were, and the loop goes on.
C14_FailedReadChangesNothing ==
    [][(pc = "read" /\ pc' \notin {"read", "process"})
          => /\ pc' = "check"
             /\ UNCHANGED <<frame_count, cached_hand_boxes, tracker, last_printed,
                            last_seen_time, pending_events, latest_frame, latest_data>>
      ]_vars

\* Acquisition has failed at least twice in a row after a Snapshot with a
\* tool was published: the loop is at its head, the Snapshot of the last
\* acquired frame is still in the slot, and 10 s or more have passed.
C14_Witness ==
    /\ pc = "check"
    /\ camera_active
    /\ latest_data # EmptyDict
    /\ latest_data.tools # {}
    /\ pub_frame = frame_count
    /\ clock - latest_data.timestamp >= REPRINT_AFTER

IdleStates == {"check", "idle_flock", "idle_fwrite", "idle_dlock", "idle_dwrite", "idle_sleep"}

\* C17: when the activation flag is set while the loop is in its idle
\* branch (or at the head of the loop), the loop comes to cap.read, unless
\* the flag is cleared again first.
C17_ReactivationObserved ==
    (camera_active /\ pc \in IdleStates) ~> (pc = "read" \/ ~camera_active)

\* The loop has idled after acquiring frames (the idle branch has emptied
\* the slots) and, the flag set again, stands at cap.read.
C17_Witness ==
    /\ pc = "read"
    /\ camera_active
    /\ frame_count > 0
    /\ latest_data = EmptyDict
    /\ latest_frame = None

\* C20: hand localization has run on exactly the cycles that are multiples
\* of HAND_EVERY_N and the tracker (with marker detection) on exactly the
\* multiples of ARUCO_EVERY_N; a cycle without localization leaves the
\* cached hand regions as they were, which are therefore at most
\* HAND_EVERY_N - 1 cycles old, and empty before the first localization.
C20_DecimationSchedule ==
    [][Processed
          => /\ hands_frame' = frame_count' - (frame_count' % HAND_EVERY_N)
             /\ tracker'.frame_count = frame_count' \div ARUCO_EVERY_N
             /\ (tracker'.frame_count # tracker.frame_count)
                    <=> (frame_count' % ARUCO_EVERY_N = 0)
             /\ frame_count' % HAND_EVERY_N # 0
                    => cached_hand_boxes' = cached_hand_boxes
             /\ frame_count' - hands_frame' <= HAND_EVERY_N - 1
             /\ hands_frame' = 0 => cached_hand_boxes' = <<>>
      ]_vars

\* Marker detection has just run (frame 8) over hand regions that are
\* two cycles old (localized in frame 6), and found the marker.
C20_Witness ==
    /\ pc = "pub_flock"
    /\ frame_count % ARUCO_EVERY_N = 0
    /\ frame_count - hands_frame = HAND_EVERY_N - 1
    /\ cached_hand_boxes # <<>>
    /\ tracker_cands # {}

\* The steps of the loop between the debounce and the Snapshot publish.
Publishing == {"pub_flock", "pub_fwrite", "pub_dlock", "pub_dwrite"}

\* C23: the events the debounce emits in a cycle are the events list of the
\* Snapshot that cycle publishes, and of no other: a cycle starts with no
\* event pending, what it emits stays pending untouched until its publish,
\* the publish puts exactly the pending events into the Snapshot of that
\* frame and leaves none pending for a later one.
C23_EventsInTheirCyclesSnapshot ==
    [][/\ Processed => /\ pending_events = <<>>
                       /\ pc' \in Publishing
       /\ pc \in Publishing
            => /\ pc' \in Publishing \cup {"check"}
               /\ pc' \in Publishing => pending_events' = pending_events
               /\ pc' = "check" => /\ pc = "pub_dwrite"
                                  /\ latest_data'.events = pending_events
                                  /\ pub_frame' = frame_count
                                  /\ pending_events' = <<>>
       /\ latest_data' # latest_data
            => (pc = "pub_dwrite" \/ latest_data' = EmptyDict)
       /\ pending_events' # pending_events => (Processed \/ pc = "pub_dwrite")
      ]_vars

\* The Snapshot of the current frame has just been published with the
\* event emitted in its cycle, and nothing is pending any more.
C23_Witness ==
    /\ pc = "check"
    /\ pub_frame = frame_count
    /\ latest_data # EmptyDict
    /\ latest_data.events # <<>>
    /\ pending_events = <<>>

\* The events the current step appends.
Emitted == {pending_events'[k] : k \in (Len(pending_events) + 1)..Len(pending_events')}

\* C24: every event is emitted in the cycle in which the tracker created the
\* Track of its id (a cycle with marker detection; the id had no Track
\* before it), so it carries status 'detected' and confidence 1.0, in the
\* pending list and in every published Snapshot.
C24_EventsAreFreshDetections ==
    [][/\ Processed
            => \A e \in Emitted :
                  /\ e.status = "detected"
                  /\ e.confidence = 1000
                  /\ frame_count' % ARUCO_EVERY_N = 0
                  /\ e.id \notin DOMAIN tracker.tracked_tools
                  /\ e.id \in DOMAIN tracker'.tracked_tools
                  /\ tracker'.tracked_tools[e.id].frames_lost = 0
       /\ latest_data' # EmptyDict
            => \A k \in 1..Len(latest_data'.events) :
                  /\ latest_data'.events[k].status = "detected"
                  /\ latest_data'.events[k].confidence = 1000
      ]_vars

\* An event is pending for an id whose Track was created in this cycle and
\* updated in the same cycle by a second candidate (the marker was found in
\* both hand regions): two hits in its window, confidence still 1.0.
C24_Witness ==
    /\ pc = "pub_flock"
    /\ \E k \in 1..Len(pending_events) :
          LET e == pending_events[k] IN
          /\ e.id \in DOMAIN tracker.tracked_tools
          /\ tracker.tracked_tools[e.id].detection_history = <<1, 1>>
          /\ e.confidence = 1000
          /\ e.status = "detected"

\* Both published slots are empty.
SlotsEmpty == latest_frame = None /\ latest_data = EmptyDict

\* C25: once the activation flag is clear, either start() sets it again or
\* the loop gets to its idle branch and both slots become empty.
C25_DeactivationClearsSlots ==
    (~camera_active) ~> (camera_active \/ SlotsEmpty)

\* C26: the first Snapshot published into the slot that the idle branch
\* emptied (the first after a stop() / start()) lists only tools whose ids
\* were among the candidates of its own cycle, the only cycle since the
\* start(): no Track from before the deactivation is listed without a fresh
\* detection.
C26_FirstSnapshotListsFreshTools ==
    [][(/\ pc = "pub_dwrite"
        /\ latest_data = EmptyDict
        /\ latest_data' # EmptyDict)
       => ToolIds(latest_data') \subseteq CandidatesOfPublished'
      ]_vars

\* C10: no oracle failure ends the loop.
C10_OracleFailureIsolated == pc # "crashed"

====
